---- MODULE Spec2Model ----
(***************************************************************************)
(* Model of the Dem Bones Maya tool: the selection/topology utilities      *)
(* (utils.py), the validator (validator.py), the controller                *)
(* (controller.py) and the generate handler of the form (ui.py), together  *)
(* with the part of the Maya session they read: the scene, the selection   *)
(* and the plugin registry; and the installer and uninstaller (install.py, *)
(* uninstall.py) with the folders and shelves they write.                  *)
(*                                                                         *)
(* A Maya long name such as |grp|simBody is a sequence of node names; the  *)
(* empty string is the empty sequence.  Python's None and optional values  *)
(* are sequences of length 0 or 1.  A formatted message is its format      *)
(* string together with the values substituted into it.                    *)
(***************************************************************************)
EXTENDS Integers, Sequences, FiniteSets, TLC

\* ------------------------------------------------------------------ bounds
MaxFrame == 2
MaxIters == 1
MaxBones == 1
MaxSel   == 2

\* ------------------------------------------------------- the Maya session
MeshA   == <<"grp", "simBody">>      \* transform with a mesh shape
MeshB   == <<"body">>                \* transform with a mesh shape
Locator == <<"locator1">>            \* transform without a mesh shape
EmptyPath == <<>>                    \* the string ""

MeshPaths == {MeshA, MeshB}
Transforms == {MeshA, MeshB, Locator}
\* the mesh shape node under a mesh transform; the one under MeshB is a node
\* the user can pick directly
MeshShape(m) == Append(m, "Shape")
Nodes == Transforms \cup {MeshShape(MeshB)}
\* the nodes left once the meshes of d are deleted, shapes included
Remaining(d) == {n \in Nodes : n \notin d /\ \A m \in d : n # MeshShape(m)}

Topologies ==
    {<<100, 98, 196>>, <<101, 98, 196>>, <<100, 99, 196>>, <<100, 98, 197>>}

BaseTopology == <<100, 98, 196>>

\* <<start_frame, end_frame, global_iters, num_bones>> as callers pass them
RunFrames == 1..MaxFrame
Iters  == 0..MaxIters
Bones  == 0..MaxBones
RunParams == RunFrames \X RunFrames \X Iters \X Bones
\* validation is also exercised on the far-apart frame 100
Frames == RunFrames \cup {100}
AllParams == Frames \X Frames \X Iters \X Bones
\* values the form's intFields can hold: minValue=1 on the two parameters
FieldParams == {a \in RunParams : a[3] >= 1 /\ a[4] >= 1}
\* in a whole session: the values the form opens with, and a bad tuple
DefaultFields == <<1, 100, 50, 12>>
SessionParams == {DefaultFields, <<100, 1, 0, 0>>}
SessionFieldParams == {DefaultFields, <<100, 1, 50, 12>>}

ExcTexts == {"RuntimeError"}

\* set of nodes currently in the scene
VARIABLE exists
\* mesh transform -> <<vertices, faces, edges>>
VARIABLE topo
\* the ordered active selection
VARIABLE selection
\* a DemBones binary is on the plug-in path
VARIABLE pluginAvailable
\* the DemBones plug-in is loaded
VARIABLE pluginLoaded
\* DemBonesController.source_mesh
VARIABLE source_mesh
\* DemBonesController.target_mesh
VARIABLE target_mesh
\* what the operation performed by the last step returned
VARIABLE ret
\* the installer's folder and ~/Documents/maya
VARIABLE disk
\* shelf layout of the running Maya -> labels of its buttons
VARIABLE shelves

vars == <<exists, topo, selection, pluginAvailable, pluginLoaded,
          source_mesh, target_mesh, ret, disk, shelves>>

host == <<disk, shelves>>

scene == <<exists, topo, selection, pluginAvailable>>

None == <<>>
Some(x) == <<x>>

Msg(text, nums, names) == [text |-> text, nums |-> nums, names |-> names]

NoRet == [op |-> "none"]

NoDup(s) == \A i, j \in 1..Len(s) : i # j => s[i] # s[j]

\* sequences without repetition of length at most n over S
RECURSIVE SeqsUpTo(_, _)
SeqsUpTo(S, n) ==
    IF n = 0 THEN {<<>>}
    ELSE LET shorter == SeqsUpTo(S, n - 1)
         IN  shorter \cup
             {t \in {Append(s, x) : s \in {u \in shorter : Len(u) = n - 1},
                                   x \in S} : NoDup(t)}

\* ------------------------------------------------------------ host queries
\* cmds.objExists(path)
objExists(path) == path \in exists

\* cmds.ls(selection=True, type='transform', long=True)
ls_selection == SelectSeq(selection, LAMBDA p : p \in Transforms)

\* cmds.listRelatives(node, shapes=True, type='mesh')
listRelatives_mesh(node) == IF node \in MeshPaths THEN {MeshShape(node)} ELSE {}

\* cmds.polyEvaluate(mesh, vertex/face/edge=True) on a name that is or was a
\* mesh transform: the three counts, or a raise when the name does not resolve
polyEvaluate(mesh) ==
    IF mesh \in exists
    THEN [raised |-> FALSE, counts |-> topo[mesh]]
    ELSE [raised |-> TRUE, counts |-> <<0, 0, 0>>]

\* ---------------------------------------------------------------- utils.py
\* a short name taken from the front of the path
get_short_name_first(full_path) ==
    IF full_path = EmptyPath THEN "" ELSE full_path[1]

get_short_name(full_path) ==
    IF full_path = EmptyPath THEN "" ELSE full_path[Len(full_path)]

\* a selection query that takes the last selected transform
get_selected_mesh_last ==
    LET sel == ls_selection IN
    IF sel = <<>>
    THEN [success |-> FALSE, full_path |-> None,
          message |-> Msg("Please select a mesh", <<>>, <<>>)]
    ELSE IF listRelatives_mesh(sel[Len(sel)]) = {}
    THEN [success |-> FALSE, full_path |-> None,
          message |-> Msg("Selected object is not a mesh", <<>>, <<>>)]
    ELSE [success |-> TRUE, full_path |-> Some(sel[Len(sel)]),
          message |-> Msg("Mesh selected successfully", <<>>, <<>>)]

get_selected_mesh ==
    LET sel == ls_selection IN
    IF sel = <<>>
    THEN [success |-> FALSE, full_path |-> None,
          message |-> Msg("Please select a mesh", <<>>, <<>>)]
    ELSE IF listRelatives_mesh(sel[1]) = {}
    THEN [success |-> FALSE, full_path |-> None,
          message |-> Msg("Selected object is not a mesh", <<>>, <<>>)]
    ELSE [success |-> TRUE, full_path |-> Some(sel[1]),
          message |-> Msg("Mesh selected successfully", <<>>, <<>>)]

\* a comparator that leaves the edge counts out
check_topology_match_no_edges(mesh1, mesh2) ==
    LET p1 == polyEvaluate(mesh1)
        p2 == polyEvaluate(mesh2)
    IN  [raised |-> FALSE,
         match |-> /\ ~p1.raised /\ ~p2.raised
                   /\ p1.counts[1] = p2.counts[1]
                   /\ p1.counts[2] = p2.counts[2],
         error |-> None, mesh1 |-> None, mesh2 |-> None]

\* a comparator without the except clause: a failing count query escapes
check_topology_match_propagating(mesh1, mesh2) ==
    LET p1 == polyEvaluate(mesh1)
        p2 == polyEvaluate(mesh2)
    IN  [raised |-> p1.raised \/ p2.raised,
         match |-> /\ ~p1.raised /\ ~p2.raised
                   /\ p1.counts[1] = p2.counts[1]
                   /\ p1.counts[2] = p2.counts[2]
                   /\ p1.counts[3] = p2.counts[3],
         error |-> None, mesh1 |-> None, mesh2 |-> None]

\* raised tells whether the call let an exception escape: it never does
check_topology_match(mesh1, mesh2) ==
    LET p1 == polyEvaluate(mesh1)
        p2 == polyEvaluate(mesh2)
    IN  IF p1.raised \/ p2.raised
        THEN [raised |-> FALSE,
              match |-> FALSE, error |-> Some("No object matches name"),
              mesh1 |-> None, mesh2 |-> None]
        ELSE [raised |-> FALSE,
              match |-> /\ p1.counts[1] = p2.counts[1]
                        /\ p1.counts[2] = p2.counts[2]
                        /\ p1.counts[3] = p2.counts[3],
              error |-> None,
              mesh1 |-> Some([name |-> get_short_name(mesh1),
                              vertices |-> p1.counts[1],
                              faces |-> p1.counts[2],
                              edges |-> p1.counts[3]]),
              mesh2 |-> Some([name |-> get_short_name(mesh2),
                              vertices |-> p2.counts[1],
                              faces |-> p2.counts[2],
                              edges |-> p2.counts[3]])]

load_dembones_plugin ==
    IF pluginLoaded
    THEN [success |-> TRUE, loaded |-> TRUE, loadCalls |-> 0,
          message |-> Msg("DemBones plugin already loaded", <<>>, <<>>)]
    ELSE IF pluginAvailable
    THEN [success |-> TRUE, loaded |-> TRUE, loadCalls |-> 1,
          message |-> Msg("DemBones plugin loaded successfully", <<>>, <<>>)]
    ELSE [success |-> FALSE, loaded |-> FALSE, loadCalls |-> 1,
          message |-> Msg("Failed to load DemBones plugin: {}", <<>>,
                          <<"Plug-in, DemBones, was not found on MAYA_PLUG_IN_PATH">>)]

\* ------------------------------------------------------------ validator.py
\* str.capitalize() on the two literals validate_all passes
capitalize(s) ==
    CASE s = "Source mesh" -> "Source mesh"
      [] s = "Target mesh" -> "Target mesh"

\* a mesh check whose two tests are both made
validate_mesh_both_tests(mesh_path, mesh_type) ==
    (IF mesh_path = EmptyPath
     THEN <<Msg("{} is not set", <<>>, <<capitalize(mesh_type)>>)>>
     ELSE <<>>)
    \o
    (IF ~objExists(mesh_path)
     THEN <<Msg("{} does not exist", <<>>, <<capitalize(mesh_type)>>)>>
     ELSE <<>>)

validate_mesh(mesh_path, mesh_type) ==
    IF mesh_path = EmptyPath
    THEN <<Msg("{} is not set", <<>>, <<capitalize(mesh_type)>>)>>
    ELSE IF ~objExists(mesh_path)
    THEN <<Msg("{} does not exist", <<>>, <<capitalize(mesh_type)>>)>>
    ELSE <<>>

\* a frame check that lets start = end through
validate_frame_range_non_strict(start_frame, end_frame) ==
    IF start_frame > end_frame
    THEN <<Msg("Start frame ({}) must be less than end frame ({})",
               <<start_frame, end_frame>>, <<>>)>>
    ELSE <<>>

validate_frame_range(start_frame, end_frame) ==
    IF start_frame >= end_frame
    THEN <<Msg("Start frame ({}) must be less than end frame ({})",
               <<start_frame, end_frame>>, <<>>)>>
    ELSE <<>>

validate_parameters(global_iters, num_bones) ==
    (IF global_iters < 1
     THEN <<Msg("Global iterations must be at least 1", <<>>, <<>>)>>
     ELSE <<>>)
    \o
    (IF num_bones < 1
     THEN <<Msg("Number of bones must be at least 1", <<>>, <<>>)>>
     ELSE <<>>)

\* a topology check that does not ask whether the two meshes exist
validate_all_topology_unguarded(src, tgt, check_topology) ==
    IF /\ check_topology /\ src # EmptyPath /\ tgt # EmptyPath
       /\ ~check_topology_match(src, tgt).match
    THEN <<Msg("Source and target meshes do not have matching topology",
               <<>>, <<>>)>>
    ELSE <<>>

\* the last step of validate_all: the topology check
validate_all_topology(src, tgt, check_topology) ==
    IF /\ check_topology /\ src # EmptyPath /\ tgt # EmptyPath
       /\ objExists(src) /\ objExists(tgt)
       /\ ~check_topology_match(src, tgt).match
    THEN <<Msg("Source and target meshes do not have matching topology",
               <<>>, <<>>)>>
    ELSE <<>>

\* the error list validate_all accumulates
validate_all_errors(src, tgt, start_frame, end_frame, global_iters, num_bones, check_topology) ==
            validate_mesh(src, "Source mesh")
            \o validate_mesh(tgt, "Target mesh")
            \o (IF src # EmptyPath /\ tgt # EmptyPath /\ src = tgt
                THEN <<Msg("Source and target meshes cannot be the same",
                           <<>>, <<>>)>>
                ELSE <<>>)
            \o validate_frame_range(start_frame, end_frame)
            \o validate_parameters(global_iters, num_bones)
            \o validate_all_topology(src, tgt, check_topology)

\* a validator that stops at the first violation
validate_all_first_only(src, tgt, start_frame, end_frame, global_iters, num_bones, check_topology) ==
    LET errors == validate_all_errors(src, tgt, start_frame, end_frame,
                                      global_iters, num_bones, check_topology)
        first == IF errors = <<>> THEN <<>> ELSE <<errors[1]>>
    IN  [valid |-> Len(first) = 0, errors |-> first]

\* a validator that tolerates one violation
validate_all_lenient(src, tgt, start_frame, end_frame, global_iters, num_bones, check_topology) ==
    LET errors == validate_all_errors(src, tgt, start_frame, end_frame,
                                      global_iters, num_bones, check_topology)
    IN  [valid |-> Len(errors) <= 1, errors |-> errors]

validate_all(src, tgt, start_frame, end_frame, global_iters, num_bones, check_topology) ==
    LET errors == validate_all_errors(src, tgt, start_frame, end_frame,
                                      global_iters, num_bones, check_topology)
    IN  [valid |-> Len(errors) = 0, errors |-> errors]

\* ----------------------------------------------------------- controller.py
\* the tuple set_source/target_mesh_from_selection returns; label is
\* "Source mesh set: " or "Target mesh set: "
set_mesh_result(label) ==
    LET r == get_selected_mesh IN
    IF r.success
    THEN [success |-> TRUE, full_path |-> r.full_path,
          short_name |-> Some(get_short_name(r.full_path[1])),
          message |-> Msg(label, <<>>, <<get_short_name(r.full_path[1])>>)]
    ELSE [success |-> FALSE, full_path |-> None, short_name |-> None,
          message |-> r.message]

validate_inputs(start_frame, end_frame, global_iters, num_bones) ==
    validate_all(source_mesh, target_mesh, start_frame, end_frame,
                 global_iters, num_bones, TRUE)

\* what cmds.demBones does when invoked: it completes or raises.  The joints
\* and skin weights it creates on completion belong to the native plug-in and
\* are not part of the state modelled here.
Outcomes == {"completes"} \cup ExcTexts

\* run_dembones: its return value (raised, success, message), the host
\* commands it issued (loadCalls; demBones, the argument records of its
\* cmds.demBones calls; external, what the command did) and the plug-in state
\* it leaves; outcome is what cmds.demBones does if it is reached
run_result(l, success, message, calls, external) ==
    [raised |-> FALSE, success |-> success, message |-> message,
     loadCalls |-> l.loadCalls, demBones |-> calls, external |-> external,
     loaded |-> l.loaded]

\* a call with the two frame arguments in each other's place
demBones_call_swapped(start_frame, end_frame, global_iters, num_bones) ==
    [sourceMesh |-> source_mesh, targetMesh |-> target_mesh,
     startFrame |-> end_frame, endFrame |-> start_frame,
     globalIters |-> global_iters, numBones |-> num_bones]

demBones_call(start_frame, end_frame, global_iters, num_bones) ==
    [sourceMesh |-> source_mesh, targetMesh |-> target_mesh,
     startFrame |-> start_frame, endFrame |-> end_frame,
     globalIters |-> global_iters, numBones |-> num_bones]

\* a run that goes on to the command although the plug-in failed to load
run_dembones_ignoring_load(start_frame, end_frame, global_iters, num_bones, outcome) ==
    LET l == load_dembones_plugin
        call == demBones_call(start_frame, end_frame, global_iters, num_bones)
    IN  IF outcome = "completes"
        THEN run_result(l, TRUE,
                        Msg("SUCCESS! {} bones created on '{}'",
                            <<num_bones>>, <<get_short_name(target_mesh)>>),
                        <<call>>, outcome)
        ELSE run_result(l, FALSE,
                        Msg("Error running Dem Bones: {}", <<>>, <<outcome>>),
                        <<call>>, outcome)

\* a run without the except clause around the command
run_dembones_propagating(start_frame, end_frame, global_iters, num_bones, outcome) ==
    LET l == load_dembones_plugin
        call == demBones_call(start_frame, end_frame, global_iters, num_bones)
    IN  IF ~l.success
        THEN run_result(l, FALSE, l.message, <<>>, "not invoked")
        ELSE IF outcome = "completes"
        THEN run_result(l, TRUE,
                        Msg("SUCCESS! {} bones created on '{}'",
                            <<num_bones>>, <<get_short_name(target_mesh)>>),
                        <<call>>, outcome)
        ELSE [run_result(l, FALSE, Msg("", <<>>, <<>>), <<call>>, outcome)
                 EXCEPT !.raised = TRUE]

run_dembones(start_frame, end_frame, global_iters, num_bones, outcome) ==
    LET l == load_dembones_plugin
        call == demBones_call(start_frame, end_frame, global_iters, num_bones)
    IN  IF ~l.success
        THEN run_result(l, FALSE, l.message, <<>>, "not invoked")
        ELSE IF outcome = "completes"
        THEN run_result(l, TRUE,
                        Msg("SUCCESS! {} bones created on '{}'",
                            <<num_bones>>, <<get_short_name(target_mesh)>>),
                        <<call>>, outcome)
        ELSE run_result(l, FALSE,
                        Msg("Error running Dem Bones: {}", <<>>, <<outcome>>),
                        <<call>>, outcome)

\* ------------------------------------------------- install.py, uninstall.py
\* A file name is <<stem, extension>>.  The installer's folder holds the
\* plugins folder (absent, or the set of files in it), the tool package and
\* the icon; ~/Documents/maya holds directories, and under each of them the
\* files the installer and the uninstaller touch.  Copies and removals are
\* taken to succeed whenever their source or target exists.
PLUGIN_NAME == <<"DemBones", ".mll">>
ICON_NAME == "icon.png"
\* DemBonesInstaller.SHELF_NAME
InstallerShelf == "CustomTools"
\* DemBonesUninstaller.SHELF_NAME
UninstallerShelf == "DemBones"
\* cmds.about(version=True) of the running Maya
CurrentVersion == "2025"

\* directories that may exist under ~/Documents/maya
DocEntries == {"2017", "2018", "2025", "2026", "projects"}
\* files that may sit in the plugins folder
PluginFiles == {<<"DemBones_maya2025", ".mll">>, <<"DemBones_2025", ".mll">>, PLUGIN_NAME, <<"README", ".txt">>}
\* an icon left by an earlier, hand-made installation
LegacyIcon == "DemBones_icon.png"

isdigit(name) == name \in {"2017", "2018", "2025", "2026"}

int(name) ==
    CASE name = "2017" -> 2017
      [] name = "2018" -> 2018
      [] name = "2025" -> 2025
      [] name = "2026" -> 2026

\* "dembones" in file.lower()
names_dembones(file) == file = LegacyIcon

shelf_file(name) == "shelf_" \o name \o ".mel"

EmptyDir == [dirs |-> FALSE, plugin |-> None, tool |-> FALSE, icons |-> {}, shelfFiles |-> {}]

NoDisk == [plugins |-> None, tool |-> FALSE, icon |-> FALSE, docs |-> {}, content |-> [v \in {} |-> EmptyDir]]

NoShelves == [n \in {} |-> {}]

\* a validation that does not ask for the tool package
validate_sources_lenient(d) ==
    LET errors ==
            IF d.plugins = None THEN <<"Missing plugins folder: ">>
            ELSE IF {f \in d.plugins[1] : f[2] = ".mll"} = {}
                 THEN <<"No .mll files found in: ">>
                 ELSE <<>>
    IN  Len(errors) = 0

validate_sources(d) ==
    LET errors ==
            (IF d.plugins = None THEN <<"Missing plugins folder: ">>
             ELSE IF {f \in d.plugins[1] : f[2] = ".mll"} = {}
                  THEN <<"No .mll files found in: ">>
                  ELSE <<>>)
            \o (IF ~d.tool THEN <<"Missing folder: ">> ELSE <<>>)
    IN  Len(errors) = 0

\* the names found, as a set: each version is handled in its own directory,
\* so the sorted order of the list does not show in the result
find_maya_versions(d) ==
    {name \in d.docs : isdigit(name) /\ 2018 <= int(name) /\ int(name) <= 2025}

\* a lookup that takes the generic binary first
find_plugin_generic_first(d, version) ==
    IF d.plugins = None THEN None
    ELSE LET exact_match == <<"DemBones_maya" \o version, ".mll">>
             alt_match == <<"DemBones_" \o version, ".mll">>
         IN  IF PLUGIN_NAME \in d.plugins[1] THEN Some(PLUGIN_NAME)
             ELSE IF exact_match \in d.plugins[1] THEN Some(exact_match)
             ELSE IF alt_match \in d.plugins[1] THEN Some(alt_match)
             ELSE None

find_plugin_for_version(d, version) ==
    IF d.plugins = None THEN None
    ELSE LET exact_match == <<"DemBones_maya" \o version, ".mll">>
             alt_match == <<"DemBones_" \o version, ".mll">>
         IN  IF exact_match \in d.plugins[1] THEN Some(exact_match)
             ELSE IF alt_match \in d.plugins[1] THEN Some(alt_match)
             ELSE IF PLUGIN_NAME \in d.plugins[1] THEN Some(PLUGIN_NAME)
             ELSE None

\* the version directory after _install_for_version; plugin is the file
\* whose bytes plug-ins/DemBones.mll now holds
install_for_version(d, version) ==
    LET old == d.content[version]
        plugin_source == find_plugin_for_version(d, version)
    IN  [dirs |-> TRUE,
         plugin |-> IF plugin_source # None THEN plugin_source ELSE old.plugin,
         tool |-> d.tool,
         icons |-> IF d.icon THEN old.icons \cup {ICON_NAME} ELSE old.icons,
         shelfFiles |-> old.shelfFiles]

\* saveAllShelves: one file per shelf of the session in the preferences of
\* the running version
saveAllShelves(d, sh) ==
    IF CurrentVersion \notin d.docs THEN d
    ELSE [d EXCEPT !.content[CurrentVersion].shelfFiles = @ \cup {shelf_file(n) : n \in DOMAIN sh}]

\* the shelves after _create_shelf_button
create_shelf_button(sh) ==
    [n \in DOMAIN sh \cup {InstallerShelf} |-> IF n = InstallerShelf THEN {"DemBones"} ELSE sh[n]]

current_plugin_exists(d) ==
    /\ CurrentVersion \in d.docs
    /\ d.content[CurrentVersion].plugin # None

\* the version directory after _uninstall_for_version
uninstall_for_version(d, version) ==
    LET old == d.content[version]
    IN  [dirs |-> old.dirs,
         plugin |-> None,
         tool |-> FALSE,
         icons |-> {file \in old.icons : ~names_dembones(file)},
         shelfFiles |-> old.shelfFiles \ {shelf_file(UninstallerShelf)}]

\* the shelves after _remove_shelf
remove_shelf(sh) ==
    IF UninstallerShelf \in DOMAIN sh
    THEN [n \in DOMAIN sh \ {UninstallerShelf} |-> sh[n]]
    ELSE sh

\* -------------------------------------------------------------------- init
Init ==
    /\ exists = Nodes
    /\ topo \in {t \in [MeshPaths -> Topologies] :
                    /\ t[MeshA] = BaseTopology
                    /\ t[MeshB] \in {BaseTopology, <<101, 98, 196>>}}
    /\ selection = <<>>
    /\ pluginAvailable \in BOOLEAN
    /\ pluginLoaded \in BOOLEAN
    /\ pluginLoaded => pluginAvailable
    /\ source_mesh = EmptyPath
    /\ target_mesh = EmptyPath
    /\ ret = NoRet
    /\ disk = NoDisk
    /\ shelves = NoShelves

\* ------------------------------------------------------- the user and host
\* the user changes the active selection
Select ==
    \E s \in SeqsUpTo(exists, MaxSel) :
        /\ s # selection
        /\ selection' = s
        /\ ret' = NoRet
        /\ UNCHANGED host
        /\ UNCHANGED <<exists, topo, pluginAvailable, pluginLoaded,
                       source_mesh, target_mesh>>

\* the user deletes a mesh from the scene; Maya drops it from the selection
Delete ==
    \E m \in MeshPaths \cap exists :
        /\ exists' = exists \cap Remaining({m})
        /\ selection' = SelectSeq(selection, LAMBDA p : p \in Remaining({m}))
        /\ ret' = NoRet
        /\ UNCHANGED host
        /\ UNCHANGED <<topo, pluginAvailable, pluginLoaded,
                       source_mesh, target_mesh>>

\* the plug-in binary is put on the plug-in path
InstallPlugin ==
    /\ ~pluginAvailable
    /\ pluginAvailable' = TRUE
    /\ ret' = NoRet
    /\ UNCHANGED host
    /\ UNCHANGED <<exists, topo, selection, pluginLoaded,
                   source_mesh, target_mesh>>

\* -------------------------------------------------------------- operations
\* a setter that forgets the reference when the selection is rejected
set_source_mesh_clearing ==
    LET r == set_mesh_result("Source mesh set: ") IN
    /\ source_mesh' = IF r.success THEN r.full_path[1] ELSE EmptyPath
    /\ ret' = [op |-> "set_source_mesh_from_selection", result |-> r]
    /\ UNCHANGED host
    /\ UNCHANGED <<exists, topo, selection, pluginAvailable, pluginLoaded,
                   target_mesh>>

set_source_mesh_from_selection ==
    LET r == set_mesh_result("Source mesh set: ") IN
    /\ source_mesh' = IF r.success THEN r.full_path[1] ELSE source_mesh
    /\ ret' = [op |-> "set_source_mesh_from_selection", result |-> r]
    /\ UNCHANGED host
    /\ UNCHANGED <<exists, topo, selection, pluginAvailable, pluginLoaded,
                   target_mesh>>

\* a target setter that stores into the source reference
set_target_mesh_into_source ==
    LET r == set_mesh_result("Target mesh set: ") IN
    /\ source_mesh' = IF r.success THEN r.full_path[1] ELSE source_mesh
    /\ ret' = [op |-> "set_target_mesh_from_selection", result |-> r]
    /\ UNCHANGED host
    /\ UNCHANGED <<exists, topo, selection, pluginAvailable, pluginLoaded,
                   target_mesh>>

set_target_mesh_from_selection ==
    LET r == set_mesh_result("Target mesh set: ") IN
    /\ target_mesh' = IF r.success THEN r.full_path[1] ELSE target_mesh
    /\ ret' = [op |-> "set_target_mesh_from_selection", result |-> r]
    /\ UNCHANGED host
    /\ UNCHANGED <<exists, topo, selection, pluginAvailable, pluginLoaded,
                   source_mesh>>

\* validate_inputs called with a tuple of P
ValidateInputs(P) ==
    \E a \in P :
        /\ ret' = [op |-> "validate_inputs", args |-> a,
                   result |-> validate_inputs(a[1], a[2], a[3], a[4])]
        /\ UNCHANGED host
        /\ UNCHANGED <<exists, topo, selection, pluginAvailable, pluginLoaded,
                       source_mesh, target_mesh>>

\* a run that consumes the two references
RunDembones_consuming(P) ==
    \E a \in P, outcome \in Outcomes :
        LET r == run_dembones(a[1], a[2], a[3], a[4], outcome) IN
        /\ pluginLoaded' = r.loaded
        /\ ret' = [op |-> "run_dembones", args |-> a, result |-> r]
        /\ source_mesh' = EmptyPath
        /\ target_mesh' = EmptyPath
        /\ UNCHANGED host
        /\ UNCHANGED <<exists, topo, selection, pluginAvailable>>

\* run_dembones called with a tuple of P
RunDembones(P) ==
    \E a \in P, outcome \in Outcomes :
        LET r == run_dembones(a[1], a[2], a[3], a[4], outcome) IN
        /\ pluginLoaded' = r.loaded
        /\ ret' = [op |-> "run_dembones", args |-> a, result |-> r]
        /\ UNCHANGED host
        /\ UNCHANGED <<exists, topo, selection, pluginAvailable,
                       source_mesh, target_mesh>>

CheckTopologyMatch ==
    \E m1 \in MeshPaths, m2 \in MeshPaths :
        /\ ret' = [op |-> "check_topology_match", args |-> <<m1, m2>>,
                   result |-> check_topology_match(m1, m2)]
        /\ UNCHANGED host
        /\ UNCHANGED <<exists, topo, selection, pluginAvailable, pluginLoaded,
                       source_mesh, target_mesh>>

\* ------------------------------------------------------------------- ui.py
\* the generate handler with the four fields holding a tuple of P: validate,
\* and run only when valid; run is None when the handler returned after
\* showing the errors
\* a handler that runs whatever the validation said
on_generate_ungated(P) ==
    \E a \in P, outcome \in Outcomes :
        LET v == validate_inputs(a[1], a[2], a[3], a[4])
            r == run_dembones(a[1], a[2], a[3], a[4], outcome)
        IN  /\ pluginLoaded' = r.loaded
            /\ ret' = [op |-> "on_generate_button_clicked",
                       args |-> a,
                       validation |-> v,
                       shown |-> <<r.message>>,
                       run |-> Some(r)]
            /\ UNCHANGED host
            /\ UNCHANGED <<exists, topo, selection, pluginAvailable,
                           source_mesh, target_mesh>>

\* a handler that loads the plug-in before it looks at the validation
on_generate_loading_first(P) ==
    \E a \in P, outcome \in Outcomes :
        LET v == validate_inputs(a[1], a[2], a[3], a[4])
            r == run_dembones(a[1], a[2], a[3], a[4], outcome)
        IN  /\ pluginLoaded' = r.loaded
            /\ ret' = [op |-> "on_generate_button_clicked",
                       args |-> a,
                       validation |-> v,
                       shown |-> IF ~v.valid THEN v.errors
                                 ELSE <<r.message>>,
                       run |-> IF v.valid THEN Some(r) ELSE None]
            /\ UNCHANGED host
            /\ UNCHANGED <<exists, topo, selection, pluginAvailable,
                           source_mesh, target_mesh>>

on_generate_button_clicked(P) ==
    \E a \in P, outcome \in Outcomes :
        LET v == validate_inputs(a[1], a[2], a[3], a[4])
            r == run_dembones(a[1], a[2], a[3], a[4], outcome)
        IN  /\ pluginLoaded' = IF v.valid THEN r.loaded ELSE pluginLoaded
            /\ ret' = [op |-> "on_generate_button_clicked",
                       args |-> a,
                       validation |-> v,
                       shown |-> IF ~v.valid THEN v.errors
                                 ELSE <<r.message>>,
                       run |-> IF v.valid THEN Some(r) ELSE None]
            /\ UNCHANGED host
            /\ UNCHANGED <<exists, topo, selection, pluginAvailable,
                           source_mesh, target_mesh>>

\* ------------------------------------------- the installer and uninstaller
\* DemBonesInstaller().install(); loadOk is whether Maya manages to load the
\* copied binary
install ==
    \E loadOk \in BOOLEAN :
        LET versions == find_maya_versions(disk)
            ok == validate_sources(disk) /\ versions # {}
            installed == [disk EXCEPT !.content = [v \in disk.docs |-> IF v \in versions THEN install_for_version(disk, v) ELSE disk.content[v]]]
            newShelves == create_shelf_button(shelves)
            saved == saveAllShelves(installed, newShelves)
        IN  /\ disk' = IF ok THEN saved ELSE disk
            /\ shelves' = IF ok THEN newShelves ELSE shelves
            /\ pluginAvailable' = IF ok THEN current_plugin_exists(saved) ELSE pluginAvailable
            /\ pluginLoaded' = IF ok /\ current_plugin_exists(saved) THEN loadOk ELSE pluginLoaded
            /\ ret' = [op |-> "install", result |-> ok]
            /\ UNCHANGED <<exists, topo, selection, source_mesh, target_mesh>>

\* DemBonesUninstaller().uninstall(); unloadOk is whether Maya manages to
\* unload the plug-in
uninstall ==
    \E unloadOk \in BOOLEAN :
        LET versions == find_maya_versions(disk)
            removed == [disk EXCEPT !.content = [v \in disk.docs |-> IF v \in versions THEN uninstall_for_version(disk, v) ELSE disk.content[v]]]
            newShelves == remove_shelf(shelves)
            saved == IF UninstallerShelf \in DOMAIN shelves THEN saveAllShelves(removed, newShelves) ELSE removed
        IN  /\ disk' = saved
            /\ shelves' = newShelves
            /\ pluginAvailable' = current_plugin_exists(saved)
            /\ pluginLoaded' = (pluginLoaded /\ ~unloadOk)
            /\ ret' = [op |-> "uninstall", result |-> TRUE]
            /\ UNCHANGED <<exists, topo, selection, source_mesh, target_mesh>>

\* ------------------------------------------------------------- the session
\* every operation of the tool, in any order, in a changing scene
Next ==
    \/ Select
    \/ Delete
    \/ InstallPlugin
    \/ set_source_mesh_from_selection
    \/ set_target_mesh_from_selection
    \/ ValidateInputs(SessionParams)
    \/ RunDembones(SessionParams)
    \/ on_generate_button_clicked(SessionFieldParams)

Spec == Init /\ [][Next]_vars

\* ------------------------------------------- the validator and comparator
\* The validator and the comparator applied in every scene and to every pair
\* of references the session can hold (meshes present or deleted, any
\* topology, references unset, equal or distinct); nothing else changes.
InitPure ==
    /\ exists \in {Remaining(d) : d \in SUBSET MeshPaths}
    /\ topo \in [MeshPaths -> Topologies]
    /\ selection = <<>>
    /\ pluginAvailable = FALSE
    /\ pluginLoaded = FALSE
    /\ source_mesh \in MeshPaths \cup {EmptyPath}
    /\ target_mesh \in MeshPaths \cup {EmptyPath}
    /\ ret = NoRet
    /\ disk = NoDisk
    /\ shelves = NoShelves

NextPure ==
    \/ ValidateInputs(AllParams)
    \/ CheckTopologyMatch

SpecPure == InitPure /\ [][NextPure]_vars

\* ------------------------------------------------------------ running alone
\* run_dembones and the generate handler with every parameter tuple, from
\* every pair of references and plug-in state the session can reach
InitRun ==
    /\ exists \in {Remaining(d) : d \in SUBSET MeshPaths}
    /\ topo \in {t \in [MeshPaths -> Topologies] :
                    /\ t[MeshA] = BaseTopology
                    /\ t[MeshB] \in {BaseTopology, <<101, 98, 196>>}}
    /\ selection = <<>>
    /\ pluginAvailable \in BOOLEAN
    /\ pluginLoaded \in BOOLEAN
    /\ pluginLoaded => pluginAvailable
    /\ source_mesh \in MeshPaths \cup {EmptyPath}
    /\ target_mesh \in MeshPaths \cup {EmptyPath}
    /\ ret = NoRet
    /\ disk = NoDisk
    /\ shelves = NoShelves

NextRun ==
    \/ InstallPlugin
    \/ RunDembones(RunParams)
    \/ on_generate_button_clicked(FieldParams)

SpecRun == InitRun /\ [][NextRun]_vars

\* ------------------------------------------------ installing and removing
\* install() and uninstall() in any order, over every content of the
\* installer's folder and every set of directories under ~/Documents/maya;
\* legacy is an earlier hand-made installation in the running version: a
\* shelf named DemBones, its shelf file and its icon
InitInstall ==
    /\ exists = Nodes
    /\ topo = [m \in MeshPaths |-> BaseTopology]
    /\ selection = <<>>
    /\ pluginAvailable = FALSE
    /\ pluginLoaded = FALSE
    /\ source_mesh = EmptyPath
    /\ target_mesh = EmptyPath
    /\ ret = NoRet
    /\ \E plugins \in {None} \cup {Some(S) : S \in SUBSET PluginFiles}, tool \in BOOLEAN, icon \in BOOLEAN, docs \in SUBSET DocEntries, legacy \in BOOLEAN :
        /\ disk = [plugins |-> plugins, tool |-> tool, icon |-> icon, docs |-> docs,
                   content |-> [v \in docs |->
                       IF legacy /\ v = CurrentVersion
                       THEN [EmptyDir EXCEPT !.dirs = TRUE, !.icons = {LegacyIcon}, !.shelfFiles = {shelf_file(UninstallerShelf)}]
                       ELSE EmptyDir]]
        /\ shelves = IF legacy THEN [n \in {UninstallerShelf} |-> {"DemBones"}] ELSE NoShelves

NextInstall ==
    \/ install
    \/ uninstall

SpecInstall == InitInstall /\ [][NextInstall]_vars

\* ================================================================== claims
\* the checks of validate_all in the order the validator runs them, each with
\* the message it reports and the condition under which it is violated
IsValidation == ret.op = "validate_inputs"

SourceErrors ==
    {Msg("{} is not set", <<>>, <<"Source mesh">>),
     Msg("{} does not exist", <<>>, <<"Source mesh">>)}
TargetErrors ==
    {Msg("{} is not set", <<>>, <<"Target mesh">>),
     Msg("{} does not exist", <<>>, <<"Target mesh">>)}
SameError == Msg("Source and target meshes cannot be the same", <<>>, <<>>)
FrameErrorText == "Start frame ({}) must be less than end frame ({})"
ItersError == Msg("Global iterations must be at least 1", <<>>, <<>>)
BonesError == Msg("Number of bones must be at least 1", <<>>, <<>>)
TopologyError ==
    Msg("Source and target meshes do not have matching topology", <<>>, <<>>)

CheckRank(e) ==
    CASE e \in SourceErrors -> 1
      [] e \in TargetErrors -> 2
      [] e = SameError -> 3
      [] e.text = FrameErrorText -> 4
      [] e = ItersError -> 5
      [] e = BonesError -> 6
      [] e = TopologyError -> 7
      [] OTHER -> 0

BothResolve ==
    /\ source_mesh # EmptyPath /\ target_mesh # EmptyPath
    /\ source_mesh \in exists /\ target_mesh \in exists

\* is check number k violated by the references held and the arguments
\* <<start, end, iterations, bones>> in this scene
CheckViolated(k, a) ==
    CASE k = 1 -> source_mesh = EmptyPath \/ source_mesh \notin exists
      [] k = 2 -> target_mesh = EmptyPath \/ target_mesh \notin exists
      [] k = 3 -> source_mesh # EmptyPath /\ source_mesh = target_mesh
      [] k = 4 -> ~(a[1] < a[2])
      [] k = 5 -> ~(a[3] >= 1)
      [] k = 6 -> ~(a[4] >= 1)
      [] k = 7 -> BothResolve /\ topo[source_mesh] # topo[target_mesh]

ErrorSet(errors) == {errors[i] : i \in 1..Len(errors)}

\* C1: validate_all reports every violated check and no other, one error per
\* violated check, in check order (source presence/existence, target
\* presence/existence, source = target, start < end, iterations >= 1,
\* bone_count >= 1, topology); for start=100, end=1, iterations=0, bones=0
\* on one non-existent path as source and target it reports at least five
\* distinct errors.
C1_AllViolationsInOrder ==
    IsValidation =>
        LET errors == ret.result.errors IN
        /\ \A k \in 1..7 :
               CheckViolated(k, ret.args) <=>
                   \E i \in 1..Len(errors) : CheckRank(errors[i]) = k
        /\ \A i \in 1..Len(errors) : CheckRank(errors[i]) \in 1..7
        /\ \A i, j \in 1..Len(errors) :
               i < j => CheckRank(errors[i]) < CheckRank(errors[j])
        /\ (/\ ret.args = <<100, 1, 0, 0>>
            /\ source_mesh # EmptyPath /\ source_mesh = target_mesh
            /\ source_mesh \notin exists)
           => Cardinality(ErrorSet(errors)) >= 5

C1_Witness ==
    /\ IsValidation
    /\ ret.args = <<100, 1, 0, 0>>
    /\ source_mesh # EmptyPath /\ source_mesh = target_mesh
    /\ source_mesh \notin exists
    /\ Len(ret.result.errors) = 6

\* ------------------------------------------------------------------ setters
IsSetSource == ret.op = "set_source_mesh_from_selection"
IsSetTarget == ret.op = "set_target_mesh_from_selection"

\* the transforms among the selected nodes, in selection order
SelectedTransforms == SelectSeq(selection, LAMBDA n : n \in Transforms)

\* nothing selected, or the selection is one transform without a mesh shape
NothingOrNonMesh ==
    \/ selection = <<>>
    \/ Len(selection) = 1 /\ selection[1] \in Transforms \ MeshPaths

\* C2: set_source_mesh_from_selection (resp. set_target_...) called with zero
\* objects selected, or with a selected transform that has no mesh shape,
\* returns a failure tuple with a non-empty message and leaves the stored
\* source (resp. target) reference as it was.
C2_FailedSetKeepsReference ==
    [][ /\ (IsSetSource' /\ NothingOrNonMesh) =>
            /\ ~ret'.result.success
            /\ ret'.result.message.text # ""
            /\ source_mesh' = source_mesh
        /\ (IsSetTarget' /\ NothingOrNonMesh) =>
            /\ ~ret'.result.success
            /\ ret'.result.message.text # ""
            /\ target_mesh' = target_mesh ]_vars

C2_Witness ==
    /\ IsSetSource
    /\ selection = <<Locator>>
    /\ ~ret.result.success
    /\ ret.result.message.text = "Selected object is not a mesh"
    /\ source_mesh = MeshA

\* C3 as stated: a set from the selection succeeds only when exactly one
\* object is selected and it is a mesh.
C3_OnlyExactlyOneMesh ==
    (IsSetSource \/ IsSetTarget) /\ ret.result.success
        => Len(selection) = 1 /\ selection[1] \in MeshPaths

\* C3 amended: a set from the selection succeeds exactly when at least one
\* transform is selected and the first selected transform has a mesh shape;
\* the reference then becomes that first transform, whatever else is
\* selected.  With no transform selected, or a first transform without a
\* mesh shape, the call fails and the reference is not set.
C3_FirstSelectedTransformDecides ==
    [][ LET sel == SelectedTransforms
            ok == sel # <<>> /\ sel[1] \in MeshPaths
        IN  /\ IsSetSource' =>
                /\ ret'.result.success <=> ok
                /\ source_mesh' = IF ok THEN sel[1] ELSE source_mesh
            /\ IsSetTarget' =>
                /\ ret'.result.success <=> ok
                /\ target_mesh' = IF ok THEN sel[1] ELSE target_mesh ]_vars

C3_Witness ==
    /\ IsSetSource
    /\ ret.result.success
    /\ selection = <<MeshA, MeshB>>
    /\ source_mesh = MeshA

\* ---------------------------------------------------------------------- run
IsRun == ret.op = "run_dembones"
IsGenerate == ret.op = "on_generate_button_clicked"

\* the run_dembones call made by the last step, if it made one
LastRun ==
    IF IsRun THEN Some(ret.result)
    ELSE IF IsGenerate THEN ret.run
    ELSE None

NoCheckViolated(a) == \A k \in 1..7 : ~CheckViolated(k, a)

\* C4 as stated: whenever run_dembones invokes cmds.demBones, the references
\* and the four parameters pass validate_all.
C4_RunForwardsOnlyValidated ==
    (LastRun # None /\ LastRun[1].demBones # <<>>) => NoCheckViolated(ret.args)

\* C4 amended: run_dembones does not validate, it forwards the references and
\* parameters it is given; it is the generate handler that validates, and
\* whenever cmds.demBones is invoked from the generate handler the
\* controller's references and the four field values pass validate_all.
C4_GenerateForwardsOnlyValidated ==
    (IsGenerate /\ ret.run # None /\ ret.run[1].demBones # <<>>)
        => /\ NoCheckViolated(ret.args)
           /\ ret.validation.valid

C4_Witness ==
    /\ IsGenerate
    /\ ret.run # None
    /\ Len(ret.run[1].demBones) = 1
    /\ ret.run[1].success

\* C5: for two mesh identifiers whose counts resolve, check_topology_match
\* reports a match if and only if the vertex counts, the face counts and the
\* edge counts are each equal.
C5_MatchIffAllCountsEqual ==
    (ret.op = "check_topology_match"
        /\ ret.args[1] \in exists /\ ret.args[2] \in exists)
    => (ret.result.match <=>
            \A i \in 1..3 : topo[ret.args[1]][i] = topo[ret.args[2]][i])

C5_Witness ==
    /\ ret.op = "check_topology_match"
    /\ ret.args[1] # ret.args[2]
    /\ ret.args[1] \in exists /\ ret.args[2] \in exists
    /\ topo[ret.args[1]][1] = topo[ret.args[2]][1]
    /\ topo[ret.args[1]][2] = topo[ret.args[2]][2]
    /\ topo[ret.args[1]][3] # topo[ret.args[2]][3]
    /\ ~ret.result.match

\* C6: validate_all checks topology only when both meshes are set and exist:
\* then equal counts add no topology error and any differing count makes the
\* result invalid with "Source and target meshes do not have matching
\* topology" in the list; with a mesh unset or missing the error never
\* appears.
C6_TopologyErrorOnlyWhenBothResolve ==
    IsValidation =>
        LET errors == ErrorSet(ret.result.errors)
            differ == \E i \in 1..3 : topo[source_mesh][i] # topo[target_mesh][i]
        IN  /\ BothResolve /\ differ =>
                TopologyError \in errors /\ ~ret.result.valid
            /\ BothResolve /\ ~differ => TopologyError \notin errors
            /\ ~BothResolve => TopologyError \notin errors

C6_Witness ==
    /\ IsValidation
    /\ BothResolve
    /\ topo[source_mesh] = <<100, 98, 196>>
    /\ topo[target_mesh] = <<101, 98, 196>>
    /\ ret.result.errors = <<TopologyError>>
    /\ ~ret.result.valid

HasFrameError(errors) ==
    \E i \in 1..Len(errors) : errors[i].text = FrameErrorText

\* C7: the frame-range check rejects every pair with start >= end, start =
\* end included, and accepts every pair with start < end, start = end - 1
\* included.
C7_FrameRangeStrict ==
    IsValidation =>
        /\ ret.args[1] >= ret.args[2] =>
               /\ HasFrameError(ret.result.errors)
               /\ ~ret.result.valid
        /\ ret.args[1] < ret.args[2] => ~HasFrameError(ret.result.errors)

C7_Witness ==
    /\ IsValidation
    /\ ret.args[1] = ret.args[2] - 1
    /\ ~HasFrameError(ret.result.errors)
    /\ ret.result.valid

\* C8: validate_all returns valid exactly when the error list is empty, and
\* a single violated check of any kind makes the result invalid.
C8_ValidIffNoErrors ==
    IsValidation =>
        /\ ret.result.valid <=> ret.result.errors = <<>>
        /\ ret.result.valid <=> NoCheckViolated(ret.args)

C8_Witness ==
    /\ IsValidation
    /\ Cardinality({k \in 1..7 : CheckViolated(k, ret.args)}) = 1
    /\ CheckViolated(6, ret.args)
    /\ ~ret.result.valid

\* C9: when the plug-in cannot be loaded, run_dembones returns a failure
\* tuple carrying the load error, does not invoke cmds.demBones and makes one
\* load attempt only.
C9_LoadFailureAborts ==
    [][ (LastRun' # None /\ ~pluginLoaded /\ ~pluginAvailable) =>
            LET r == LastRun'[1] IN
            /\ ~r.raised
            /\ ~r.success
            /\ r.message.text = "Failed to load DemBones plugin: {}"
            /\ r.message.names # <<>>
            /\ r.demBones = <<>>
            /\ r.loadCalls = 1
            /\ ~pluginLoaded' ]_vars

C9_Witness ==
    /\ IsRun
    /\ ~pluginAvailable
    /\ ~ret.result.success
    /\ ret.result.message.text = "Failed to load DemBones plugin: {}"
    /\ ret.result.demBones = <<>>

\* C10: an exception raised by cmds.demBones during run_dembones is caught
\* and turned into a (False, message) tuple; run_dembones never lets it
\* reach its caller.
C10_ExternalExceptionCaught ==
    LastRun # None =>
        LET r == LastRun[1] IN
        /\ ~r.raised
        /\ r.external \in ExcTexts =>
               /\ ~r.success
               /\ r.message.text = "Error running Dem Bones: {}"
               /\ r.message.names = <<r.external>>

C10_Witness ==
    /\ IsRun
    /\ ret.result.external \in ExcTexts
    /\ ~ret.result.raised
    /\ ~ret.result.success

\* the trailing '|'-separated segment of a long name
TrailingSegment(path) == IF Len(path) = 0 THEN "" ELSE path[Len(path)]

\* C11: when the plug-in is available and cmds.demBones completes,
\* run_dembones returns (True, message) and the message carries the
\* requested bone count and the short display name of the target, the
\* trailing '|'-separated segment of the target reference.
C11_SuccessMessageNamesBonesAndTarget ==
    (LastRun # None /\ LastRun[1].external = "completes") =>
        LET r == LastRun[1] IN
        /\ ~r.raised
        /\ r.success
        /\ r.message.text = "SUCCESS! {} bones created on '{}'"
        /\ r.message.nums = <<ret.args[4]>>
        /\ r.message.names = <<TrailingSegment(target_mesh)>>

C11_Witness ==
    /\ IsRun
    /\ ret.result.success
    /\ target_mesh = MeshA
    /\ ret.args[4] = 1
    /\ ret.result.message.nums = <<1>>
    /\ ret.result.message.names = <<"simBody">>

\* C12: the controller is reusable across runs: a run attempt, whether it
\* succeeds or fails, leaves the source and target references as they were,
\* and in every state of a session each controller operation (set source,
\* set target, validate, run) can still be performed.
C12_ReusableAcrossRuns ==
    /\ [](/\ ENABLED set_source_mesh_from_selection
          /\ ENABLED set_target_mesh_from_selection
          /\ ENABLED ValidateInputs(SessionParams)
          /\ ENABLED RunDembones(SessionParams))
    /\ [][LastRun' # None =>
            /\ source_mesh' = source_mesh
            /\ target_mesh' = target_mesh]_vars

C12_Witness ==
    /\ IsRun
    /\ ~ret.result.success
    /\ ret.result.external \in ExcTexts
    /\ source_mesh = MeshA
    /\ target_mesh = MeshB
    /\ ENABLED RunDembones(SessionParams)

\* ------------------------------------------------------- unresolved meshes
IsComparison == ret.op = "check_topology_match"

\* the count queries on m raise: the name does not resolve in the scene
Unresolvable(m) == m \notin exists

\* the comparator half of C13: with an unresolvable argument the comparator
\* returns a non-match carrying the error text and lets no exception out
ComparatorSurvivesUnresolved ==
    (IsComparison /\ (Unresolvable(ret.args[1]) \/ Unresolvable(ret.args[2])))
        => /\ ~ret.result.raised
           /\ ~ret.result.match
           /\ ret.result.error # None
           /\ ret.result.error[1] # ""

\* both references are set and at least one of them no longer resolves
ReferenceUnresolved ==
    /\ source_mesh # EmptyPath /\ target_mesh # EmptyPath
    /\ Unresolvable(source_mesh) \/ Unresolvable(target_mesh)

\* C13 as stated: an unresolvable mesh makes check_topology_match return a
\* non-match with the error text instead of raising, and validate_all then
\* reports the topology-mismatch error.
C13_UnresolvedReportedAsMismatch ==
    /\ ComparatorSurvivesUnresolved
    /\ (IsValidation /\ ReferenceUnresolved)
           => TopologyError \in ErrorSet(ret.result.errors)

\* C13 amended: an unresolvable mesh makes check_topology_match return a
\* non-match with the error text instead of raising; validate_all does not
\* call the comparator for a reference that does not exist: it reports that
\* mesh's "does not exist" error and no topology-mismatch error.
C13_UnresolvedReportedAsMissing ==
    /\ ComparatorSurvivesUnresolved
    /\ (IsValidation /\ ReferenceUnresolved) =>
           LET errors == ErrorSet(ret.result.errors) IN
           /\ TopologyError \notin errors
           /\ Unresolvable(source_mesh) <=>
                  Msg("{} does not exist", <<>>, <<"Source mesh">>) \in errors
           /\ Unresolvable(target_mesh) <=>
                  Msg("{} does not exist", <<>>, <<"Target mesh">>) \in errors
           /\ ~ret.result.valid

C13_Witness ==
    /\ IsComparison
    /\ ~Unresolvable(ret.args[1])
    /\ Unresolvable(ret.args[2])
    /\ ~ret.result.match
    /\ ret.result.error # None

\* ------------------------------------------------------ the generate action
\* C15: in the generate action run_dembones, and so the external command, is
\* invoked only if validate_inputs returned valid for the field values read
\* in that action; when validation fails the handler shows the full error
\* list and returns without loading the plug-in or invoking the command; the
\* values validated are the values passed to run.
C15_GenerateRunsOnlyAfterValidation ==
    [][ IsGenerate' =>
            LET valid == \A k \in 1..7 : ~CheckViolated(k, ret'.args) IN
            /\ ret'.validation.valid <=> valid
            /\ ret'.run # None <=> valid
            /\ ~valid =>
                   /\ ret'.shown = ret'.validation.errors
                   /\ ret'.shown # <<>>
                   /\ pluginLoaded' = pluginLoaded
            /\ (valid /\ ret'.run[1].demBones # <<>>) =>
                   LET c == ret'.run[1].demBones[1] IN
                   /\ c.startFrame = ret'.args[1]
                   /\ c.endFrame = ret'.args[2]
                   /\ c.globalIters = ret'.args[3]
                   /\ c.numBones = ret'.args[4] ]_vars

C15_Witness ==
    /\ IsGenerate
    /\ ~ret.validation.valid
    /\ Len(ret.shown) = 2
    /\ ret.run = None
    /\ pluginAvailable
    /\ ~pluginLoaded

\* C16: each call to run_dembones invokes cmds.demBones at most once, and
\* the named arguments of that invocation are the controller's current
\* source and target references and the four integers the caller supplied,
\* unmodified.
C16_OneCallArgumentsUnmodified ==
    LastRun # None =>
        LET calls == LastRun[1].demBones IN
        /\ Len(calls) <= 1
        /\ LastRun[1].external # "not invoked" <=> Len(calls) = 1
        /\ Len(calls) = 1 =>
               calls[1] = [sourceMesh |-> source_mesh,
                           targetMesh |-> target_mesh,
                           startFrame |-> ret.args[1],
                           endFrame |-> ret.args[2],
                           globalIters |-> ret.args[3],
                           numBones |-> ret.args[4]]

C16_Witness ==
    /\ IsRun
    /\ Len(ret.result.demBones) = 1
    /\ ret.args = <<1, 2, 0, 1>>
    /\ source_mesh = MeshA
    /\ target_mesh = MeshB
    /\ ret.result.demBones[1].startFrame = 1
    /\ ret.result.demBones[1].endFrame = 2
    /\ ret.result.demBones[1].sourceMesh = MeshA

\* -------------------------------------------------------------- independence
\* C19: the two mesh references are independent: set_source_mesh_from_
\* selection never changes the target reference, set_target_mesh_from_
\* selection never changes the source reference, whether the call succeeds
\* or fails, and validate_inputs changes neither.
C19_ReferencesIndependent ==
    [][ /\ IsSetSource' => target_mesh' = target_mesh
        /\ IsSetTarget' => source_mesh' = source_mesh
        /\ IsValidation' =>
               source_mesh' = source_mesh /\ target_mesh' = target_mesh ]_vars

C19_Witness ==
    /\ IsSetTarget
    /\ ret.result.success
    /\ target_mesh = MeshB
    /\ source_mesh = MeshA

\* --------------------------------------------------------- size of the list
PositionsIn(errors, S) == {i \in 1..Len(errors) : errors[i] \in S}

\* C20: in a validate_all result each mesh contributes at most one
\* presence/existence error ("is not set" or "does not exist", never both),
\* the topology-mismatch error never appears together with a presence or
\* existence error of either mesh, and the list has at most six entries.
C20_AtMostSixErrors ==
    IsValidation =>
        LET errors == ret.result.errors IN
        /\ Cardinality(PositionsIn(errors, SourceErrors)) <= 1
        /\ Cardinality(PositionsIn(errors, TargetErrors)) <= 1
        /\ PositionsIn(errors, {TopologyError}) # {} =>
               PositionsIn(errors, SourceErrors \cup TargetErrors) = {}
        /\ Len(errors) <= 6

C20_Witness ==
    /\ IsValidation
    /\ source_mesh = EmptyPath
    /\ Len(ret.result.errors) = 5
    /\ Cardinality(PositionsIn(ret.result.errors, SourceErrors)) = 1
    /\ Cardinality(PositionsIn(ret.result.errors, TargetErrors)) = 1

\* ------------------------------------------------ installing and removing
IsInstall == ret.op = "install"
IsUninstall == ret.op = "uninstall"

\* the directories under ~/Documents/maya named 2018..2025
VersionDirectories == disk.docs \cap {"2018", "2025"}

\* the binaries in the plugins folder
MllFiles == IF disk.plugins = None THEN {} ELSE {f \in disk.plugins[1] : f[2] = ".mll"}

SourcesInvalid == disk.plugins = None \/ MllFiles = {} \/ ~disk.tool

LauncherRegistered == \E n \in DOMAIN shelves : "DemBones" \in shelves[n]

\* C14: the uninstaller reverses the installer: once uninstall() has run, in
\* every version directory 2018..2025 the plugin binary, the script package
\* and the icon install() copied are absent, and so is the shelf launcher
\* install() registered.
C14_UninstallReversesInstall ==
    IsUninstall =>
        /\ \A v \in VersionDirectories :
            /\ disk.content[v].plugin = None
            /\ ~disk.content[v].tool
            /\ ICON_NAME \notin disk.content[v].icons
        /\ ~LauncherRegistered

\* C17: install() returns False and changes neither the disk, nor the
\* shelves, nor the loaded plug-in when the plugins folder is missing or holds
\* no .mll file, when the tool package is missing, or when no directory named
\* 2018..2025 exists; it returns True, and only then installs, creates the
\* shelf and loads the plug-in, when both checks pass.
C17_InstallRefusesBeforeChanging ==
    [][IsInstall' =>
        LET refused == SourcesInvalid \/ VersionDirectories = {}
        IN  /\ refused =>
                /\ ret'.result = FALSE
                /\ disk' = disk
                /\ shelves' = shelves
                /\ pluginLoaded' = pluginLoaded
            /\ ~refused =>
                /\ ret'.result = TRUE
                /\ InstallerShelf \in DOMAIN shelves'
                /\ \A v \in VersionDirectories : disk'.content[v].dirs]_vars

\* valid sources, but the only numbered directories lie just outside
\* 2018..2025: install() refused and left everything as it was
C17_Witness ==
    /\ IsInstall
    /\ ret.result = FALSE
    /\ ~SourcesInvalid
    /\ disk.docs = {"2017", "2026"}
    /\ \A v \in disk.docs : disk.content[v] = EmptyDir
    /\ shelves = NoShelves
    /\ ~pluginLoaded

\* C18: for each version directory a successful install() copies
\* DemBones_maya<version>.mll if the plugins folder has it, otherwise
\* DemBones_<version>.mll, otherwise DemBones.mll; when it has none of the
\* three the installed binary is left as it was, and the script package is
\* copied in every case.
C18_PluginChosenByPriority ==
    [][IsInstall' /\ ret'.result =>
        \A v \in VersionDirectories :
            LET exact == <<"DemBones_maya" \o v, ".mll">>
                alt == <<"DemBones_" \o v, ".mll">>
                generic == <<"DemBones", ".mll">>
                now == disk'.content[v]
            IN  /\ exact \in MllFiles => now.plugin = <<exact>>
                /\ exact \notin MllFiles /\ alt \in MllFiles => now.plugin = <<alt>>
                /\ {exact, alt} \cap MllFiles = {} /\ generic \in MllFiles => now.plugin = <<generic>>
                /\ {exact, alt, generic} \cap MllFiles = {} => now.plugin = disk.content[v].plugin
                /\ now.tool]_vars

\* the folder holds the exact and the alternative binary of 2025 and no
\* generic one: 2025 got the exact one, 2018 got no binary but got the package
C18_Witness ==
    /\ IsInstall
    /\ ret.result
    /\ MllFiles = {<<"DemBones_maya2025", ".mll">>, <<"DemBones_2025", ".mll">>}
    /\ {"2018", "2025"} \subseteq disk.docs
    /\ disk.content["2025"].plugin = <<<<"DemBones_maya2025", ".mll">>>>
    /\ disk.content["2018"].plugin = <<>>
    /\ disk.content["2018"].tool

====
